---- MODULE Spec2Model ----
(***************************************************************************)
(* State-machine model of the QQ group daily analysis plugin:              *)
(*   - MessageHandler.fetch_group_messages (src/src/core/message_handler.py)*)
(*     the paginated, failure-tolerant fetch loop;                         *)
(*   - BaseAnalyzer.analyze (src/src/analysis/analyzers/base_analyzer.py)  *)
(*     the JSON-first / regex-fallback extraction pipeline.                *)
(*   - MessageHandler.calculate_statistics (the same file), the counters   *)
(*     of one message list;                                                *)
(*   - the three extraction calls over one message set, the aggregator and *)
(*     the merge of their results.                                         *)
(* Spec is the fetch loop, SpecAnalyze the extraction pipeline, SpecStats  *)
(* the statistics, SpecPipelines the three interleaved calls.              *)
(***************************************************************************)
EXTENDS Integers, Sequences, FiniteSets, TLC

(***************************************************************************)
(* Bounds of the model.                                                    *)
(***************************************************************************)
\* config_manager.get_max_query_rounds() of the modelled configuration
MaxRounds == 2
\* config_manager.get_max_messages() of the modelled configuration
MaxMessages == 2
\* the rounds and messages allowed where the pause after five rounds is followed
RateRounds == 6
\* the calls of set_bot_qq_id that are followed
MaxIdCalls == 4
\* largest number of messages the API puts in one page (the code asks for 200)
PageLen == 2
\* largest token counter a provider response carries
MaxTok == 2
\* largest number of elements parse_json_response yields
MaxRecs == 2
\* get_max_count() of the modelled analyzer
MaxCount == 2

(***************************************************************************)
(* Input alphabets.  A time is the value datetime.fromtimestamp gives a     *)
(* message's "time", on the clock of datetime.now(); one day is one unit.  *)
(***************************************************************************)
Now == 2
Times == 0..(Now + 1)
DayChoices == {0, 1}
UserIds == {1, 2}
NoId == 0
MsgIds == {1}
None == "None"

\* str(user_id): the decimal text of an integer id
Str(n) == IF n = 1 THEN "1" ELSE IF n = 2 THEN "2" ELSE "?"

BotIds == {None, "", Str(1)}

Message == [time : Times, sender : UserIds]

RECURSIVE SeqsUpTo(_, _)
SeqsUpTo(S, n) ==
    IF n = 0 THEN {<<>>}
    ELSE LET shorter == SeqsUpTo(S, n - 1)
         IN  shorter \cup {Append(s, x) : s \in {t \in shorter : Len(t) = n - 1}, x \in S}

NoResult == [kind |-> "none", msgs |-> <<>>, first_id |-> NoId]
InvalidResult == [kind |-> "invalid", msgs |-> <<>>, first_id |-> NoId]
RaisedResult == [kind |-> "raise", msgs |-> <<>>, first_id |-> NoId]
EmptyPage == [kind |-> "page", msgs |-> <<>>, first_id |-> NoId]
Pages ==
    {[kind |-> "page", msgs |-> ms, first_id |-> id] :
        ms \in (SeqsUpTo(Message, PageLen) \ {<<>>}), id \in MsgIds \cup {NoId}}
ApiOutcomes == {InvalidResult, RaisedResult, EmptyPage} \cup Pages

VARIABLES
    pc,                     \* position of fetch_group_messages
    valid,                  \* bot_instance and group_id are both truthy
    days,                   \* the days argument
    bot_qq_id,              \* MessageHandler.bot_qq_id
    start_time, end_time,   \* the fetch window
    messages,               \* the list being collected
    message_seq,            \* the cursor sent with the next request
    query_rounds,           \* fully processed rounds
    consecutive_failures,
    result,                 \* the outcome of the page request being handled
    slept,                  \* the sleep made by the last handled round
    ret,                    \* the returned list
    requests,               \* history: page requests issued by this call
    failRun,                \* history: failed rounds in a row (invalid or raised)
    collectedOk,            \* history: the list as the last round that did not fail left it
    selfSkipped             \* history: line 94 skipped a message of the bot itself

fvars == <<pc, valid, days, bot_qq_id, start_time, end_time, messages, message_seq,
           query_rounds, consecutive_failures, result, slept, ret, requests, failRun,
           collectedOk, selfSkipped>>

VARIABLES
    apc,                    \* position of analyze
    response,               \* what call_provider_with_retry returned
    token_usage,            \* the TokenUsage built at lines 123-127
    parsed,                 \* parse_json_response has returned
    success, parsed_data,   \* what it returned
    regex_calls,            \* history: calls of extract_with_regex
    regex_cap,              \* history: the max_count passed to it
    regex_data,             \* what it returned
    create_arg,             \* history: the list passed to create_data_objects
    a_failed,               \* history: the provider returned None or a step raised
    a_ret                   \* the pair analyze returned

avars == <<apc, response, token_usage, parsed, success, parsed_data, regex_calls,
           regex_cap, regex_data, create_arg, a_failed, a_ret>>

VARIABLES
    total_chars,            \* locals of calculate_statistics, as the last call left them
    participants,
    hour_counts,            \* the defaultdict, as <<hour, count>> entries in insertion order
    emoji_statistics,
    stat_arg,               \* the message list of the last call
    stat_ret,               \* the GroupStatistics the last call returned
    probe                   \* history: one earlier call, its list and its result

svars == <<total_chars, participants, hour_counts, emoji_statistics, stat_arg, stat_ret,
           probe>>

VARIABLES
    ppc,                    \* position of each pipeline's analyze call
    slot,                   \* the response each suspended call was handed
    delivered,              \* history: the outcome the provider produced for each call
    p_ret,                  \* the pair each call returned
    p_messages,             \* the message set the three calls and the aggregator read
    aggregated,             \* calculate_statistics has run on the message set
    merged,                 \* the merged AnalysisResult
    rendered,               \* the token counters of the render data
    overlap                 \* history: a call resumed while another was suspended

pvars == <<ppc, slot, delivered, p_ret, p_messages, aggregated, merged, rendered, overlap>>

VARIABLES
    max_rounds,             \* config_manager.get_max_query_rounds()
    max_messages            \* config_manager.get_max_messages()

cvars == <<max_rounds, max_messages>>

VARIABLES
    id_calls,               \* history: calls of set_bot_qq_id
    id_pending,             \* calls suspended at the awaited get_login_info
    api_calls,              \* history: get_login_info requests issued
    login_result,           \* history: what the last resumed call was given
    id_raised               \* set_bot_qq_id let an exception out

ivars == <<id_calls, id_pending, api_calls, login_result, id_raised>>

VARIABLES
    served                  \* history: the page the API gave at each cursor

dvars == <<served>>

VARIABLES
    rpc,                    \* position of generate_image_report
    analysis_usage,         \* the token usage of the analysis result to render
    render_payload,         \* the local render_payload, unbound until line 27 returns
    render_calls,           \* history: the quality of each call of html_render_func
    render_outcomes,        \* history: what each of those calls gave
    prepare_raised,         \* history: _prepare_render_data raised
    r_ret,                  \* what generate_image_report returned
    r_raised                \* generate_image_report let an exception out

rvars == <<rpc, analysis_usage, render_payload, render_calls, render_outcomes,
           prepare_raised, r_ret, r_raised>>

vars == <<fvars, avars, svars, pvars, cvars, ivars, dvars, rvars>>

\* what the actions of one part leave alone
notFetch == <<avars, svars, pvars, cvars, ivars, dvars, rvars>>
notAnalyze == <<fvars, svars, pvars, cvars, ivars, dvars, rvars>>
notStats == <<fvars, avars, pvars, cvars, ivars, dvars, rvars>>
notPipelines == <<fvars, avars, cvars, ivars, dvars, rvars>>
notMerge == <<fvars, avars, svars, cvars, ivars, dvars, rvars>>
notIdentity == <<pc, valid, days, start_time, end_time, messages, message_seq,
                 query_rounds, consecutive_failures, result, slept, ret, requests,
                 failRun, collectedOk, selfSkipped, avars, svars, pvars, cvars, dvars, rvars>>
notServed == <<avars, svars, pvars, cvars, ivars, rvars>>
notReport == <<fvars, avars, svars, pvars, cvars, ivars, dvars>>

\* a configuration that allows more than five rounds
ConfigRate ==
    /\ max_rounds = RateRounds
    /\ max_messages = RateRounds

\* the configuration of the fetch loop
ConfigInit ==
    /\ max_rounds = MaxRounds
    /\ max_messages = MaxMessages
max_failures == 3

Truthy(s) == s # None /\ s # ""

FetchInit ==
    /\ pc = "idle"
    /\ valid \in BOOLEAN
    /\ days \in DayChoices
    /\ bot_qq_id \in BotIds
    /\ start_time = 0
    /\ end_time = 0
    /\ messages = <<>>
    /\ message_seq = 0
    /\ query_rounds = 0
    /\ consecutive_failures = 0
    /\ result = NoResult
    /\ slept = "none"
    /\ ret = <<>>
    /\ requests = 0
    /\ failRun = 0
    /\ collectedOk = <<>>
    /\ selfSkipped = FALSE

\* lines 36-53: argument check, window, loop variables
FetchStart ==
    /\ pc = "idle"
    /\ IF ~valid
       THEN /\ pc' = "done"
            /\ UNCHANGED <<start_time, end_time>>
       ELSE /\ pc' = "loop"
            /\ end_time' = Now
            /\ start_time' = Now - days
    /\ UNCHANGED <<valid, days, bot_qq_id, messages, message_seq, query_rounds,
                   consecutive_failures, result, slept, ret, requests, failRun,
                   collectedOk, selfSkipped>>
    /\ UNCHANGED notFetch

LoopCondition == Len(messages) < max_messages /\ query_rounds < max_rounds

\* line 55 false, then lines 127-128
LoopExit ==
    /\ pc = "loop"
    /\ ~LoopCondition
    /\ pc' = "done"
    /\ ret' = messages
    /\ UNCHANGED <<valid, days, bot_qq_id, start_time, end_time, messages, message_seq,
                   query_rounds, consecutive_failures, result, slept, requests, failRun,
                   collectedOk, selfSkipped>>
    /\ UNCHANGED notFetch

\* lines 55-64: one page request; the API answers with any outcome
Request ==
    /\ pc = "loop"
    /\ LoopCondition
    /\ \E r \in ApiOutcomes : result' = r
    /\ requests' = requests + 1
    /\ pc' = "got"
    /\ UNCHANGED <<valid, days, bot_qq_id, start_time, end_time, messages, message_seq,
                   query_rounds, consecutive_failures, slept, ret, failRun,
                   collectedOk, selfSkipped>>
    /\ UNCHANGED notFetch

\* a fetch served by an API whose pages hold one message of the first user
RatePages == {p \in Pages : Len(p.msgs) = 1 /\ p.msgs[1].sender = 1 /\ p.first_id # NoId}
RateOutcomes == {InvalidResult, RaisedResult, EmptyPage} \cup RatePages

RequestRate == Request /\ result' \in RateOutcomes

\* a fetch served by an API that fails, or answers with a page of at most
\* one message, with or without a message id
LiveOutcomes == {InvalidResult, RaisedResult, EmptyPage} \cup {p \in Pages : Len(p.msgs) = 1}

RequestLive == Request /\ result' \in LiveOutcomes

\* the cursors a request can carry: 0 and the message ids
Cursors == {NoId} \cup MsgIds

ServedInit == served = [c \in Cursors |-> NoResult]

\* lines 55-64 with an API that gives the same page whenever it is asked at
\* the same cursor (it may still fail and answer at the retry)
RequestDet ==
    /\ pc = "loop"
    /\ LoopCondition
    /\ \E r \in LiveOutcomes :
          /\ r.kind = "page" => served[message_seq] \in {NoResult, r}
          /\ result' = r
          /\ served' = IF r.kind = "page" THEN [served EXCEPT ![message_seq] = r] ELSE served
    /\ requests' = requests + 1
    /\ pc' = "got"
    /\ UNCHANGED <<valid, days, bot_qq_id, start_time, end_time, messages, message_seq,
                   query_rounds, consecutive_failures, slept, ret, failRun,
                   collectedOk, selfSkipped>>
    /\ UNCHANGED notServed

\* the window test without its upper end
InWindowNoUpper(t) == t >= start_time

\* line 96
InWindow(t) == t >= start_time /\ t <= end_time

\* the sender test left out
IsSelfNever(m) == FALSE

\* lines 92-93
IsSelf(m) == Truthy(bot_qq_id) /\ Str(m.sender) = bot_qq_id

\* lines 91-98: the messages of a page that are appended
Accepted(m) == ~IsSelf(m) /\ InWindow(m.time)

\* lines 88-89: the time assigned last to oldest_msg_time
OldestMsgTime(ms) == ms[Len(ms)].time

\* an invalid response that is not counted
RoundInvalidUncounted ==
    /\ pc = "got"
    /\ result.kind = "invalid"
    /\ pc' = "loop"
    /\ slept' = "none"
    /\ failRun' = failRun + 1
    /\ result' = NoResult
    /\ UNCHANGED <<valid, days, bot_qq_id, start_time, end_time, messages, message_seq,
                   query_rounds, consecutive_failures, ret, requests, collectedOk,
                   selfSkipped>>
    /\ UNCHANGED notFetch

\* lines 66-71: structurally invalid response
RoundInvalid ==
    /\ pc = "got"
    /\ result.kind = "invalid"
    /\ consecutive_failures' = consecutive_failures + 1
    /\ IF consecutive_failures' >= max_failures
       THEN pc' = "done" /\ ret' = messages
       ELSE pc' = "loop" /\ ret' = ret
    /\ slept' = "none"
    /\ failRun' = failRun + 1
    /\ result' = NoResult
    /\ UNCHANGED <<valid, days, bot_qq_id, start_time, end_time, messages, message_seq,
                   query_rounds, requests, collectedOk, selfSkipped>>
    /\ UNCHANGED notFetch

\* lines 119-125: the except handler of a round
Handler(cf, msgs) ==
    /\ consecutive_failures' = cf + 1
    /\ messages' = msgs
    /\ IF cf + 1 >= max_failures
       THEN pc' = "done" /\ ret' = msgs /\ slept' = "none"
       ELSE pc' = "loop" /\ ret' = ret /\ slept' = "backoff"
    /\ failRun' = failRun + 1

\* line 64 raises
RoundRaise ==
    /\ pc = "got"
    /\ result.kind = "raise"
    /\ Handler(consecutive_failures, messages)
    /\ result' = NoResult
    /\ UNCHANGED <<valid, days, bot_qq_id, start_time, end_time, message_seq,
                   query_rounds, requests, collectedOk, selfSkipped>>
    /\ UNCHANGED notFetch

\* an empty page counted as a failed round
RoundEmptyAsFailure ==
    /\ pc = "got"
    /\ result.kind = "page"
    /\ result.msgs = <<>>
    /\ Handler(consecutive_failures, messages)
    /\ result' = NoResult
    /\ UNCHANGED <<valid, days, bot_qq_id, start_time, end_time, message_seq,
                   query_rounds, requests, collectedOk, selfSkipped>>
    /\ UNCHANGED notFetch

\* lines 73-77: empty page
RoundEmpty ==
    /\ pc = "got"
    /\ result.kind = "page"
    /\ result.msgs = <<>>
    /\ pc' = "done"
    /\ ret' = messages
    /\ slept' = "none"
    /\ failRun' = 0
    /\ result' = NoResult
    /\ UNCHANGED <<valid, days, bot_qq_id, start_time, end_time, messages, message_seq,
                   query_rounds, consecutive_failures, requests, collectedOk, selfSkipped>>
    /\ UNCHANGED notFetch

\* a pause after every completed round
RatePauseEveryRound(rounds) == "rate"

\* lines 116-117: the sleep of 0.5 s after every fifth completed round
RatePause(rounds) == IF rounds % 5 = 0 THEN "rate" ELSE "none"

\* a counter that a page leaves as it was
AfterPageKeeps(cf) == cf

\* lines 79-80: the counter after a page with messages was received
AfterPage(cf) == 0

\* a cursor that stays where it was
NextCursorStays(first_id) == message_seq

\* line 112: the cursor after a page was processed
NextCursor(first_id) == first_id

\* lines 79-117 (and 119-125 when line 112 raises): a page with messages
RoundPage ==
    /\ pc = "got"
    /\ result.kind = "page"
    /\ result.msgs # <<>>
    /\ LET collected == messages \o SelectSeq(result.msgs, Accepted)
           valid_messages_in_round == Len(SelectSeq(result.msgs, Accepted))
       IN  IF OldestMsgTime(result.msgs) < start_time \/ valid_messages_in_round = 0
           THEN /\ pc' = "done"
                /\ messages' = collected
                /\ ret' = collected
                /\ consecutive_failures' = AfterPage(consecutive_failures)
                /\ slept' = "none"
                /\ failRun' = 0
                /\ collectedOk' = collected
                /\ UNCHANGED <<message_seq, query_rounds>>
           ELSE IF result.first_id = NoId
           THEN /\ Handler(AfterPage(consecutive_failures), collected)
                /\ UNCHANGED <<message_seq, query_rounds, collectedOk>>
           ELSE /\ pc' = "loop"
                /\ messages' = collected
                /\ consecutive_failures' = AfterPage(consecutive_failures)
                /\ message_seq' = NextCursor(result.first_id)
                /\ query_rounds' = query_rounds + 1
                /\ slept' = RatePause(query_rounds + 1)
                /\ failRun' = 0
                /\ collectedOk' = collected
                /\ ret' = ret
    /\ selfSkipped' = (selfSkipped \/ \E i \in 1..Len(result.msgs) : IsSelf(result.msgs[i]))
    /\ result' = NoResult
    /\ UNCHANGED <<valid, days, bot_qq_id, start_time, end_time, requests>>
    /\ UNCHANGED notFetch

FetchNext ==
    \/ FetchStart
    \/ LoopExit
    \/ Request
    \/ RoundInvalid
    \/ RoundRaise
    \/ RoundEmpty
    \/ RoundPage

(***************************************************************************)
(* Properties of fetch_group_messages.                                     *)
(***************************************************************************)
MinTime(ms) == CHOOSE t \in {ms[i].time : i \in 1..Len(ms)} :
                   \A j \in 1..Len(ms) : t <= ms[j].time

\* C1: every message of the returned list (and of the list while it is
\* collected) has a timestamp t with now - days <= t <= now.
C1_TimestampsInWindow ==
    /\ \A i \in 1..Len(messages) : Now - days <= messages[i].time /\ messages[i].time <= Now
    /\ \A i \in 1..Len(ret) : Now - days <= ret[i].time /\ ret[i].time <= Now

\* a fetch over one day returned a message at each end of the window
C1_Witness ==
    /\ pc = "done"
    /\ days = 1
    /\ \E i, j \in 1..Len(ret) : ret[i].time = Now - days /\ ret[j].time = Now

\* C2: a call issues at most maxRounds page requests.
C2_AtMostMaxRoundsRequests == requests <= max_rounds

\* C3: the returned list never holds more than maxMessages messages.
C3_AtMostMaxMessages == pc = "done" => Len(ret) <= max_messages

\* C4: after three failed rounds in a row (invalid response or raised
\* exception) the fetch has stopped and returned exactly the messages the
\* earlier rounds collected.
C4_ThreeFailuresAbort == failRun >= 3 => (pc = "done" /\ ret = collectedOk)

\* C5: a received page whose minimum timestamp is strictly older than the
\* window start is the last page requested: the fetch returns after it.
C5_StopWhenPageCrossesWindow ==
    [][(pc = "got" /\ result.kind = "page" /\ result.msgs # <<>>
          /\ MinTime(result.msgs) < start_time)
        => (pc' = "done" \/ (pc' = "loop" /\ ~LoopCondition'))]_vars

\* C6: with days = 0 (valid client and group id) no page request is issued
\* and the empty list is returned.
C6_ZeroDaysNoRequest == (valid /\ days = 0) => (requests = 0 /\ ret = <<>>)

\* no collected or returned message has the resolved bot identity as its sender
C7_NoSelfMessage ==
    Truthy(bot_qq_id) =>
        /\ \A i \in 1..Len(messages) : Str(messages[i].sender) # bot_qq_id
        /\ \A i \in 1..Len(ret) : Str(ret[i].sender) # bot_qq_id

TimeOk(m) == start_time <= m.time /\ m.time <= end_time

\* with the identity unknown a page appends each of its in-window messages
C7_UnknownKeepsAll ==
    (pc = "got" /\ result.kind = "page" /\ result.msgs # <<>> /\ bot_qq_id = None) =>
        /\ messages' = messages \o SelectSeq(result.msgs, TimeOk)
        /\ result.first_id # NoId => failRun' = 0

\* C7: with a resolved bot identity no collected or returned message has the
\* bot as its sender; with the identity unknown every in-window message of a
\* page is appended, whatever its sender, and a page that carries a message
\* id is not counted as a failed round.
C7_SelfExclusion == []C7_NoSelfMessage /\ [][C7_UnknownKeepsAll]_vars

\* a fetch with a resolved identity skipped a message of the bot and returned others
C7_Witness == pc = "done" /\ Truthy(bot_qq_id) /\ selfSkipped /\ Len(ret) >= 1

\* the counter stays in 0..3, is below 3 while a round runs, and while the
\* fetch runs never exceeds the number of failed rounds since the last
\* successful page
C17_CounterRange ==
    /\ consecutive_failures \in 0..3
    /\ pc = "got" => consecutive_failures < 3
    /\ pc \in {"loop", "got"} => consecutive_failures <= failRun

\* a request needs the counter below 3; a page with messages and message ids resets it
C17_RequestAndReset ==
    /\ requests' # requests => consecutive_failures < 3
    /\ (pc = "got" /\ result.kind = "page" /\ result.msgs # <<>> /\ result.first_id # NoId)
           => consecutive_failures' = 0

\* C17: the consecutive-failure counter stays in 0..3, a page request is
\* issued only while it is below 3, and a successful page (with messages and
\* their ids) resets it to 0, so the counter never exceeds the number of
\* failed rounds since the last successful page.
C17_FailureCounter == []C17_CounterRange /\ [][C17_RequestAndReset]_vars

\* two failed rounds, a successful page, two more failed rounds: the fetch goes on
C17_Witness ==
    /\ pc = "loop"
    /\ requests = 5
    /\ query_rounds = 1
    /\ failRun = 2
    /\ consecutive_failures = 2

\* C18: a round that raised and a round with an invalid response both add
\* one to the counter, both are followed by the backoff sleep before the next
\* request, and both end the fetch only when the counter reaches 3.
C18_SameFailureHandling ==
    [][(pc = "got" /\ result.kind \in {"invalid", "raise"}) =>
          /\ consecutive_failures' = consecutive_failures + 1
          /\ consecutive_failures' < 3 => (pc' = "loop" /\ slept' = "backoff")
          /\ consecutive_failures' >= 3 => pc' = "done"]_vars

\* the first request carries cursor 0; a fully processed page moves the cursor
\* to its first message id and adds one round; a failed round moves neither
C19_CursorStep ==
    /\ (requests' # requests /\ requests = 0) => message_seq = 0
    /\ (pc = "got" /\ result.kind = "page" /\ result.first_id # NoId /\ pc' = "loop")
           => (message_seq' = result.first_id /\ query_rounds' = query_rounds + 1)
    /\ (pc = "got" /\ failRun' = failRun + 1)
           => (message_seq' = message_seq /\ query_rounds' = query_rounds)
    /\ (pc = "got" /\ (result.kind \in {"invalid", "raise"} \/ result.first_id = NoId))
           => (message_seq' = message_seq /\ query_rounds' = query_rounds)

\* C19: the first page request of a fetch carries cursor 0; a page fully
\* processed without stopping sets the cursor to the message id of its first
\* element and adds exactly 1 to the rounds done; a failed round leaves the
\* cursor and the rounds done unchanged.
C19_CursorProgression == [][C19_CursorStep]_vars

\* after a processed page moved the cursor a failed round left it in place
C19_Witness ==
    /\ pc = "loop"
    /\ message_seq = 1
    /\ query_rounds = 1
    /\ failRun = 1
    /\ requests = 2

\* no message of the page is appended: each is the bot's own or outside the window
NoneAccepted(ms) ==
    \A i \in 1..Len(ms) :
        \/ (Truthy(bot_qq_id) /\ Str(ms[i].sender) = bot_qq_id)
        \/ ms[i].time < start_time
        \/ ms[i].time > end_time

C20_ExhaustedStep ==
    (/\ pc = "got"
     /\ result.kind = "page"
     /\ \/ result.msgs = <<>>
        \/ (NoneAccepted(result.msgs) /\ MinTime(result.msgs) >= start_time))
    => /\ pc' = "done"
       /\ consecutive_failures' <= consecutive_failures
       /\ failRun' = 0
       /\ message_seq' = message_seq
       /\ query_rounds' = query_rounds
       /\ messages' = messages
       /\ ret' = messages

\* C20: on an empty page, or on a page none of whose messages is accepted
\* while the window start was not crossed, the fetch stops without a further
\* request, does not increment the failure counter, does not move the cursor,
\* and returns the messages collected so far.
C20_ExhaustionIsNormalStop == [][C20_ExhaustedStep]_vars

\* after one collected message a page of the bot's own messages ended the fetch
C20_Witness ==
    /\ pc = "done"
    /\ requests = 2
    /\ query_rounds = 1
    /\ selfSkipped
    /\ failRun = 0
    /\ Len(ret) = 1
    /\ ret[1].time >= start_time

\* C21: a completed round whose count becomes a positive multiple of 5 is
\* followed by the rate-limit pause before the next page request, and a
\* completed round with any other count is followed by no such pause.
C21_PauseEveryFifthRound ==
    [][(pc = "got" /\ query_rounds' = query_rounds + 1) =>
          /\ (\E n \in 1..RateRounds : query_rounds' = 5 * n)
                => (slept' = "rate" /\ pc' = "loop")
          /\ (\A n \in 1..RateRounds : query_rounds' # 5 * n) => slept' # "rate"]_vars

\* the request after the fifth completed round was issued after the pause
C21_Witness ==
    /\ pc = "got"
    /\ query_rounds = 5
    /\ requests >= 6
    /\ slept = "rate"


DisjointPages ==
    \A c, d \in Cursors :
        c # d => \A i \in 1..Len(served[c].msgs), j \in 1..Len(served[d].msgs) :
                    served[c].msgs[i] # served[d].msgs[j]

\* C26: with an API that gives the same page at the same cursor and disjoint
\* pages at different cursors, no message is more than once in the returned
\* list (so a round counted as a failure has added none before its retry).
C26_NoDuplicates ==
    (pc = "done" /\ DisjointPages) => \A i, j \in 1..Len(ret) : i # j => ret[i] # ret[j]

(***************************************************************************)
(* MessageHandler.set_bot_qq_id.  Calls may overlap: a call is suspended   *)
(* at the awaited get_login_info and resumes with its answer.              *)
(***************************************************************************)
\* get_login_info raises, or answers without a user_id, or with one
LoginOutcomes == {"raise", "no_user_id"} \cup {Str(u) : u \in UserIds}
NoLogin == "pending"

IdentityInit ==
    /\ id_calls = 0
    /\ id_pending = 0
    /\ api_calls = 0
    /\ login_result = NoLogin
    /\ id_raised = FALSE

\* a call that asks whatever is stored
NeedsResolveAlways == TRUE

\* line 26: not self.bot_qq_id
NeedsResolve == ~Truthy(bot_qq_id)

\* lines 25-27: a call tests the instance and the stored identity and, if it
\* has to resolve, issues get_login_info and is suspended
SetBegin ==
    /\ id_calls < MaxIdCalls
    /\ id_calls' = id_calls + 1
    /\ \E bot_instance \in BOOLEAN :
          IF bot_instance /\ NeedsResolve
          THEN id_pending' = id_pending + 1 /\ api_calls' = api_calls + 1
          ELSE UNCHANGED <<id_pending, api_calls>>
    /\ UNCHANGED <<bot_qq_id, login_result, id_raised>>
    /\ UNCHANGED notIdentity

\* lines 27-31: a suspended call resumes; an answer is stored as a string
\* (a missing user_id as ""), an exception is logged
SetResume ==
    /\ id_pending > 0
    /\ id_pending' = id_pending - 1
    /\ \E r \in LoginOutcomes :
          /\ login_result' = r
          /\ bot_qq_id' = IF r = "raise" THEN bot_qq_id
                          ELSE IF r = "no_user_id" THEN ""
                          ELSE r
    /\ UNCHANGED <<id_calls, api_calls, id_raised>>
    /\ UNCHANGED notIdentity

IdentityNext ==
    \/ SetBegin
    \/ SetResume

\* a call made with a non-empty identity stored issues no request and
\* changes nothing; a resolution that raised left the identity as it was
C22_IdentityStep ==
    /\ (id_calls' = id_calls + 1 /\ bot_qq_id # None /\ bot_qq_id # "")
          => (api_calls' = api_calls /\ id_pending' = id_pending /\ bot_qq_id' = bot_qq_id)
    /\ (id_pending' = id_pending - 1 /\ login_result' = "raise") => bot_qq_id' = bot_qq_id

\* C22: once a non-empty identity is stored, every later call of
\* set_bot_qq_id issues no get_login_info request and leaves bot_qq_id
\* unchanged; a resolution that raises leaves bot_qq_id as it was, and no
\* call lets an exception out.
C22_ResolvedOnce == [](id_raised = FALSE) /\ [][C22_IdentityStep]_vars

\* a call after the identity was stored made no second request
C22_Witness ==
    /\ bot_qq_id = Str(1)
    /\ id_calls = 2
    /\ api_calls = 1
    /\ id_pending = 0

(***************************************************************************)
(* BaseAnalyzer.analyze.  The provider, the JSON parser, the regex         *)
(* extractor and the record constructor are collaborators: each call       *)
(* returns any of its outcomes or raises.                                  *)
(***************************************************************************)
UsageKeys == {"prompt_tokens", "completion_tokens", "total_tokens"}

\* the usage part of a provider response: any counter may be missing
Usages == UNION {[K -> 0..MaxTok] : K \in SUBSET UsageKeys}

NoResponse == [kind |-> "none", usage |-> <<>>]
Responses == {[kind |-> "response", usage |-> u] : u \in Usages}

\* a parsed or regex-extracted element; complete: it has every required field
Item == [key : {"a", "b"}, complete : BOOLEAN]

\* TokenUsage() with its defaults
TokenUsage0 == [prompt_tokens |-> 0, completion_tokens |-> 0, total_tokens |-> 0]

\* extract_token_usage: the counters of the response, a missing one as 0
ExtractTokenUsage(r) ==
    [k \in UsageKeys |-> IF k \in DOMAIN r.usage THEN r.usage[k] ELSE 0]

IsComplete(it) == it.complete

\* a constructor that gives up the batch at the first incomplete record
CreateDataObjectsAllOrNothing(data_list) ==
    IF \A i \in 1..Len(data_list) : data_list[i].complete THEN data_list ELSE <<>>

\* create_data_objects of a concrete analyzer: records lacking a required
\* field are dropped, the others kept in order
CreateDataObjects(data_list) == SelectSeq(data_list, IsComplete)

max_count == MaxCount

AnalyzeInit ==
    /\ apc = "start"
    /\ response = NoResponse
    /\ token_usage = TokenUsage0
    /\ parsed = FALSE
    /\ success = FALSE
    /\ parsed_data = <<>>
    /\ regex_calls = 0
    /\ regex_cap = 0
    /\ regex_data = <<>>
    /\ create_arg = <<>>
    /\ a_failed = FALSE
    /\ a_ret = [records |-> <<>>, usage |-> TokenUsage0]

\* lines 155-157
ExceptResult == [records |-> <<>>, usage |-> TokenUsage0]

\* no handler: the exception leaves analyze
ExceptPropagates ==
    /\ apc' = "raised"
    /\ a_failed' = TRUE
    /\ a_ret' = a_ret

\* a step raised: lines 155-157 end the call
Except ==
    /\ apc' = "returned"
    /\ a_failed' = TRUE
    /\ a_ret' = ExceptResult

\* line 105
BuildPrompt ==
    /\ apc = "start"
    /\ \/ apc' = "call" /\ UNCHANGED <<a_failed, a_ret>>
       \/ Except
    /\ UNCHANGED <<response, token_usage, parsed, success, parsed_data, regex_calls,
                   regex_cap, regex_data, create_arg>>
    /\ UNCHANGED notAnalyze

\* lines 108-119: the awaited provider call
CallProvider ==
    /\ apc = "call"
    /\ \/ \E r \in Responses :
            /\ response' = r
            /\ apc' = "usage"
            /\ UNCHANGED <<a_failed, a_ret>>
       \/ /\ apc' = "returned"
          /\ a_failed' = TRUE
          /\ a_ret' = [records |-> <<>>, usage |-> TokenUsage0]
          /\ UNCHANGED response
       \/ Except /\ UNCHANGED response
    /\ UNCHANGED <<token_usage, parsed, success, parsed_data, regex_calls,
                   regex_cap, regex_data, create_arg>>
    /\ UNCHANGED notAnalyze

\* lines 121-127
ExtractUsage ==
    /\ apc = "usage"
    /\ \/ /\ token_usage' = ExtractTokenUsage(response)
          /\ apc' = "text"
          /\ UNCHANGED <<a_failed, a_ret>>
       \/ Except /\ UNCHANGED token_usage
    /\ UNCHANGED <<response, parsed, success, parsed_data, regex_calls,
                   regex_cap, regex_data, create_arg>>
    /\ UNCHANGED notAnalyze

\* lines 129-131
ExtractText ==
    /\ apc = "text"
    /\ \/ apc' = "parse" /\ UNCHANGED <<a_failed, a_ret>>
       \/ Except
    /\ UNCHANGED <<response, token_usage, parsed, success, parsed_data, regex_calls,
                   regex_cap, regex_data, create_arg>>
    /\ UNCHANGED notAnalyze

\* the test that forgets the empty result
UseParsedIfSuccess(ok, data) == ok

\* line 136
UseParsed(ok, data) == ok /\ data # <<>>

\* lines 133-136
ParseJson ==
    /\ apc = "parse"
    /\ \/ \E ok \in BOOLEAN, data \in SeqsUpTo(Item, MaxRecs) :
            /\ parsed' = TRUE
            /\ success' = ok
            /\ parsed_data' = data
            /\ apc' = IF UseParsed(ok, data) THEN "create_json" ELSE "regex"
            /\ UNCHANGED <<a_failed, a_ret>>
       \/ Except /\ UNCHANGED <<parsed, success, parsed_data>>
    /\ UNCHANGED <<response, token_usage, regex_calls, regex_cap, regex_data, create_arg>>
    /\ UNCHANGED notAnalyze

\* lines 137-140
CreateFromJson ==
    /\ apc = "create_json"
    /\ create_arg' = parsed_data
    /\ \/ /\ apc' = "returned"
          /\ a_ret' = [records |-> CreateDataObjects(parsed_data), usage |-> token_usage]
          /\ UNCHANGED a_failed
       \/ Except
    /\ UNCHANGED <<response, token_usage, parsed, success, parsed_data, regex_calls,
                   regex_cap, regex_data>>
    /\ UNCHANGED notAnalyze

\* the last fallback returning a fresh TokenUsage()
RegexEmptyResultZero == [records |-> <<>>, usage |-> TokenUsage0]

\* line 153
RegexEmptyResult == [records |-> <<>>, usage |-> token_usage]

\* lines 142-146 and 150-153
RegexFallback ==
    /\ apc = "regex"
    /\ regex_calls' = regex_calls + 1
    /\ regex_cap' = max_count
    /\ \/ \E data \in SeqsUpTo(Item, max_count) :
            /\ regex_data' = data
            /\ IF data # <<>>
               THEN apc' = "create_regex" /\ UNCHANGED a_ret
               ELSE apc' = "returned" /\ a_ret' = RegexEmptyResult
            /\ UNCHANGED a_failed
       \/ Except /\ UNCHANGED regex_data
    /\ UNCHANGED <<response, token_usage, parsed, success, parsed_data, create_arg>>
    /\ UNCHANGED notAnalyze

\* lines 147-149
CreateFromRegex ==
    /\ apc = "create_regex"
    /\ create_arg' = regex_data
    /\ \/ /\ apc' = "returned"
          /\ a_ret' = [records |-> CreateDataObjects(regex_data), usage |-> token_usage]
          /\ UNCHANGED a_failed
       \/ Except
    /\ UNCHANGED <<response, token_usage, parsed, success, parsed_data, regex_calls,
                   regex_cap, regex_data>>
    /\ UNCHANGED notAnalyze

AnalyzeNext ==
    \/ BuildPrompt
    \/ CallProvider
    \/ ExtractUsage
    \/ ExtractText
    \/ ParseJson
    \/ CreateFromJson
    \/ RegexFallback
    \/ CreateFromRegex

(***************************************************************************)
(* Properties of analyze.                                                  *)
(***************************************************************************)
ZeroUsage(u) == u.prompt_tokens = 0 /\ u.completion_tokens = 0 /\ u.total_tokens = 0

\* C8: analyze always ends by returning; when the provider returned None or
\* a step raised, what it returns is the empty list with a TokenUsage whose
\* three counters are 0.
C8_NeverPropagates ==
    /\ apc \in {"start", "call", "usage", "text", "parse", "create_json", "regex",
                "create_regex", "returned"}
    /\ a_failed => (apc = "returned" /\ a_ret.records = <<>> /\ ZeroUsage(a_ret.usage))

\* a step raised after a non-zero usage had been extracted
C8_Witness ==
    /\ apc = "returned"
    /\ a_failed
    /\ regex_calls = 1
    /\ token_usage.total_tokens > 0

\* C9: the regex fallback is called at most once, only after the structured
\* parse failed or yielded no element, and then with get_max_count() as its
\* cap; a call that has returned called it exactly when the parse returned a
\* failure or no element; after a successful parse with an element the
\* records are the ones built from the parsed data.
C9_FallbackIffParseFailed ==
    /\ regex_calls <= 1
    /\ regex_calls = 1 =>
          (parsed /\ ~(success /\ parsed_data # <<>>) /\ regex_cap = max_count)
    /\ (apc = "returned" /\ parsed) =>
          (regex_calls = 1 <=> ~(success /\ parsed_data # <<>>))
    /\ (apc = "returned" /\ parsed /\ success /\ parsed_data # <<>> /\ ~a_failed) =>
          (create_arg = parsed_data /\ a_ret.records = CreateDataObjects(parsed_data))

\* the parse succeeded with no element and the fallback supplied the records
C9_Witness ==
    /\ apc = "returned"
    /\ success
    /\ parsed_data = <<>>
    /\ regex_calls = 1
    /\ a_ret.records # <<>>

Counter(r, k) == IF k \in DOMAIN r.usage THEN r.usage[k] ELSE 0

\* C10: when the provider returned a response and no step raised, the usage
\* analyze returns is the usage of that response, a missing counter as 0, on
\* the structured path, the fallback path and the path with no record, which
\* returns the empty list.
C10_UsageOfResponse ==
    (apc = "returned" /\ ~a_failed) =>
        /\ response.kind = "response"
        /\ \A k \in UsageKeys : a_ret.usage[k] = Counter(response, k)
        /\ (regex_calls = 1 /\ regex_data = <<>>) => a_ret.records = <<>>

\* neither path produced a record; the response lacked a counter and carried another
C10_Witness ==
    /\ apc = "returned"
    /\ ~a_failed
    /\ regex_calls = 1
    /\ regex_data = <<>>
    /\ "prompt_tokens" \notin DOMAIN response.usage
    /\ a_ret.usage.total_tokens > 0

RECURSIVE KeepComplete(_)
KeepComplete(l) ==
    IF l = <<>> THEN <<>>
    ELSE IF Head(l).complete THEN <<Head(l)>> \o KeepComplete(Tail(l))
    ELSE KeepComplete(Tail(l))

\* C11: no returned record lacks a required field; a record that lacks one is
\* dropped and every complete record of the same batch is returned, in the
\* order of the batch.
C11_IncompleteDropped ==
    apc = "returned" =>
        /\ \A i \in 1..Len(a_ret.records) : a_ret.records[i].complete
        /\ (~a_failed /\ create_arg # <<>>) => a_ret.records = KeepComplete(create_arg)

\* a parsed batch of a complete and an incomplete record returned the complete one
C11_Witness ==
    /\ apc = "returned"
    /\ ~a_failed
    /\ regex_calls = 0
    /\ Len(create_arg) = 2
    /\ ~create_arg[1].complete
    /\ create_arg[2].complete
    /\ a_ret.records = <<create_arg[2]>>

\* the counters the response carries are consistent among themselves
ProviderConsistent(r) ==
    UsageKeys \subseteq DOMAIN r.usage =>
        r.usage["total_tokens"] = r.usage["prompt_tokens"] + r.usage["completion_tokens"]

\* C16: every usage analyze returns has its three counters >= 0 and
\* total_tokens = prompt_tokens + completion_tokens, for every response whose
\* own counters are consistent, a response lacking counters included.
C16_TotalIsSum ==
    (apc = "returned" /\ ProviderConsistent(response)) =>
        /\ \A k \in UsageKeys : a_ret.usage[k] >= 0
        /\ a_ret.usage.total_tokens = a_ret.usage.prompt_tokens + a_ret.usage.completion_tokens

(***************************************************************************)
(* MessageHandler.calculate_statistics.  A message carries its timestamp,  *)
(* its sender and its content segments; the clock of the host is UTC.      *)
(***************************************************************************)
\* timestamps at 09:00, 14:00 and 23:00 of the first day
StatTimes == {32400, 50400, 82800}

\* a caption (the summary of an image unit) is a sequence of words; the
\* marker strings of line 177 are the words "animated" "sticker" in a row and
\* the word "sticker" alone
Text == [type |-> "text", len |-> 2]
Face == [type |-> "face", id |-> 1]
EmojiImage == [type |-> "image", summary |-> <<"[", "animated", "sticker", "]">>, file |-> 1]
StickerImage == [type |-> "image", summary |-> <<"sticker">>, file |-> 1]
PlainImage == [type |-> "image", summary |-> <<"animated", "photo">>, file |-> 1]
Segments == {Text, Face, EmojiImage, StickerImage, PlainImage}

\* text messages of both senders at the three hours, emoji and image messages
StatMessage ==
    [time : {32400}, sender : UserIds, message : {<<Text>>}] \cup
    [time : {50400}, sender : {1}, message : {<<Text>>, <<Face>>, <<EmojiImage>>}] \cup
    [time : {32400}, sender : {1}, message : {<<Face>>, <<StickerImage>>}] \cup
    [time : {82800}, sender : {2}, message : {<<Text>>, <<PlainImage>>}]

\* the message lists calculate_statistics is called with
StatInputs == SeqsUpTo(StatMessage, 2)

\* line 146: datetime.fromtimestamp(t).hour
Hour(t) == (t \div 3600) % 24

\* EmojiStatistics(): five counters at 0 and its own empty face_details
EmojiStatistics0 ==
    [face_count |-> 0, mface_count |-> 0, bface_count |-> 0, sface_count |-> 0,
     other_emoji_count |-> 0, face_details |-> <<>>]

\* an EmojiStatistics kept from the call before
KeptEmojiStatistics == emoji_statistics

\* line 139: the EmojiStatistics a call starts from
FreshEmojiStatistics == EmojiStatistics0

\* EmojiStatistics.total_emoji_count
TotalEmojiCount(es) ==
    es.face_count + es.mface_count + es.bface_count + es.sface_count + es.other_emoji_count

\* face_details[key] = face_details.get(key, 0) + 1
CountDetail(d, key) ==
    IF key \in DOMAIN d THEN [d EXCEPT ![key] = @ + 1] ELSE d @@ (key :> 1)

\* line 147: hour_counts[h] += 1; a new key goes to the end of the dict
CountHour(hc, h) ==
    IF \E i \in 1..Len(hc) : hc[i][1] = h
    THEN [i \in 1..Len(hc) |-> IF hc[i][1] = h THEN <<h, hc[i][2] + 1>> ELSE hc[i]]
    ELSE Append(hc, <<h, 1>>)

\* the word sequence w occurs in the caption
Contains(summary, w) ==
    \E i \in 1..(Len(summary) - Len(w) + 1) : SubSeq(summary, i, i + Len(w) - 1) = w

\* every image counted as a sticker
HasMarkerAnyCaption(summary) == TRUE

\* line 177: the long or the short marker string occurs in the caption
HasMarker(summary) ==
    Contains(summary, <<"animated", "sticker">>) \/ Contains(summary, <<"sticker">>)

\* lines 150-187: one content segment
Content(l, c) ==
    IF c.type = "text"
    THEN [l EXCEPT !.total_chars = @ + c.len]
    ELSE IF c.type = "face"
    THEN [l EXCEPT !.emoji_statistics.face_count = @ + 1,
                   !.emoji_statistics.face_details = CountDetail(@, <<"face", c.id>>)]
    ELSE IF c.type = "image" /\ HasMarker(c.summary)
    THEN [l EXCEPT !.emoji_statistics.mface_count = @ + 1,
                   !.emoji_statistics.face_details = CountDetail(@, <<"animated", c.file>>)]
    ELSE l

RECURSIVE Contents(_, _)
Contents(l, cs) == IF cs = <<>> THEN l ELSE Contents(Content(l, Head(cs)), Tail(cs))

\* lines 141-187: the loop over the messages
RECURSIVE ForMessages(_, _)
ForMessages(l, ms) ==
    IF ms = <<>> THEN l
    ELSE LET m == Head(ms)
             l1 == [l EXCEPT !.participants = @ \cup {Str(m.sender)},
                             !.hour_counts = CountHour(@, Hour(m.time))]
         IN  ForMessages(Contents(l1, m.message), Tail(ms))

\* line 191: max(hour_counts.items(), key=count)[0], the first entry of the
\* dict that has the maximum count; 0 for no message
MostActiveHour(hc) ==
    IF hc = <<>> THEN 0
    ELSE LET best == CHOOSE i \in 1..Len(hc) :
                         /\ \A j \in 1..Len(hc) : hc[j][2] <= hc[i][2]
                         /\ \A j \in 1..(i - 1) : hc[j][2] < hc[i][2]
         IN  hc[best][1]

\* a period whose end is not wrapped at midnight
PeriodNoWrap(h) == <<h \div 10, h % 10, (h + 1) \div 10, (h + 1) % 10>>

\* line 192: f"{h:02d}:00-{(h+1)%24:02d}:00", as its four digits
Period(h) == <<h \div 10, h % 10, ((h + 1) % 24) \div 10, ((h + 1) % 24) % 10>>

\* an aggregator that counts a token of its own
StatsTokenUsageCounted == [prompt_tokens |-> 1, completion_tokens |-> 0, total_tokens |-> 1]

\* line 206: TokenUsage()
StatsTokenUsage == TokenUsage0

\* lines 197-207
GroupStatistics(ms, l) ==
    [message_count |-> Len(ms),
     total_characters |-> l.total_chars,
     participant_count |-> Cardinality(l.participants),
     most_active_period |-> Period(MostActiveHour(l.hour_counts)),
     golden_quotes |-> <<>>,
     emoji_count |-> TotalEmojiCount(l.emoji_statistics),
     emoji_statistics |-> l.emoji_statistics,
     token_usage |-> StatsTokenUsage]

NoStats == [message_count |-> -1]
NoProbe == [set |-> FALSE]

StatsInit ==
    /\ total_chars = 0
    /\ participants = {}
    /\ hour_counts = <<>>
    /\ emoji_statistics = EmojiStatistics0
    /\ stat_arg = <<>>
    /\ stat_ret = NoStats
    /\ probe = NoProbe

\* lines 134-207: one call on the list ms
Calculate(ms) ==
    LET l == ForMessages([total_chars |-> 0, participants |-> {}, hour_counts |-> <<>>,
                          emoji_statistics |-> FreshEmojiStatistics], ms)
    IN  /\ total_chars' = l.total_chars
        /\ participants' = l.participants
        /\ hour_counts' = l.hour_counts
        /\ emoji_statistics' = l.emoji_statistics
        /\ stat_arg' = ms
        /\ stat_ret' = GroupStatistics(ms, l)

\* a call of calculate_statistics on any list; the history remembers one call
CalculateStatistics ==
    /\ \E ms \in StatInputs :
          /\ Calculate(ms)
          /\ IF probe.set
             THEN probe' = [probe EXCEPT !.again = (ms = probe.arg),
                                         !.between = (@ \/ ms # probe.arg)]
             ELSE \/ probe' = probe
                  \/ probe' = [set |-> TRUE, arg |-> ms, ret |-> stat_ret',
                               again |-> FALSE, between |-> FALSE]
    /\ UNCHANGED notStats

StatsNext == CalculateStatistics

\* the earliest of the hours with the most messages of ms
EarliestMaxHour(ms) ==
    LET n(h) == Cardinality({i \in 1..Len(ms) : Hour(ms[i].time) = h})
    IN  CHOOSE h \in 0..23 :
            /\ \A g \in 0..23 : n(g) <= n(h)
            /\ \A g \in 0..(h - 1) : n(g) < n(h)

\* C13: the most_active_period of every call is the period of the hour with
\* the most messages, the numerically earliest such hour when several hours
\* share the maximum, whatever the order of the messages.
C13_EarliestHourWins ==
    stat_ret # NoStats => stat_ret.most_active_period = Period(EarliestMaxHour(stat_arg))

\* C14: a call on the list of an earlier call returns what that call
\* returned (counters, emoji details, most_active_period), whatever calls were
\* made in between.
C14_Idempotent ==
    (probe.set /\ stat_arg = probe.arg) => stat_ret = probe.ret

\* a list with two faces was given again after a call on another list
C14_Witness ==
    /\ probe.set
    /\ probe.again
    /\ probe.between
    /\ stat_arg = probe.arg
    /\ stat_ret.emoji_count = 2
    /\ stat_ret.emoji_statistics.face_details = (<<"face", 1>> :> 2)

\* the content units of the list ms, as <<message, unit>> index pairs
Units(ms) == UNION {{<<i, j>> : j \in 1..Len(ms[i].message)} : i \in 1..Len(ms)}
IsFaceUnit(c) == c.type = "face"
IsStickerImage(c) == c.type = "image" /\ \E k \in 1..Len(c.summary) : c.summary[k] = "sticker"

\* C23: an image unit whose caption has the sticker marker adds exactly 1 to
\* mface_count and to no other counter, an image unit without it adds
\* nothing, and emoji_count is the sum of the five counters.
C23_ImageReclassified ==
    stat_ret # NoStats =>
        LET es == stat_ret.emoji_statistics
            u == Units(stat_arg)
        IN  /\ es.mface_count =
                  Cardinality({x \in u : IsStickerImage(stat_arg[x[1]].message[x[2]])})
            /\ es.face_count = Cardinality({x \in u : IsFaceUnit(stat_arg[x[1]].message[x[2]])})
            /\ es.bface_count = 0
            /\ es.sface_count = 0
            /\ es.other_emoji_count = 0
            /\ stat_ret.emoji_count = es.face_count + es.mface_count + es.bface_count
                                          + es.sface_count + es.other_emoji_count

\* an image with the marker and an image without it: one sticker counted
C23_Witness ==
    /\ stat_ret # NoStats
    /\ Len(stat_arg) = 2
    /\ stat_arg[1].message = <<PlainImage>>
    /\ stat_arg[2].message = <<StickerImage>>
    /\ stat_ret.emoji_statistics.mface_count = 1
    /\ stat_ret.emoji_count = 1

\* C24: most_active_period is "HH:00-KK:00" with HH in 00..23 and
\* KK = (HH + 1) mod 24, given here by its four digits; a call on the empty
\* list returns "00:00-01:00" with message_count 0 and participant_count 0.
C24_PeriodFormat ==
    stat_ret # NoStats =>
        LET p == stat_ret.most_active_period
        IN  /\ Len(p) = 4
            /\ \A i \in 1..4 : p[i] \in 0..9
            /\ 10 * p[1] + p[2] \in 0..23
            /\ 10 * p[3] + p[4] = (10 * p[1] + p[2] + 1) % 24
            /\ stat_arg = <<>> =>
                  /\ p = <<0, 0, 0, 1>>
                  /\ stat_ret.message_count = 0
                  /\ stat_ret.participant_count = 0

\* the busiest hour was 23 and the period ends at 00
C24_Witness ==
    /\ stat_ret # NoStats
    /\ Len(stat_arg) = 2
    /\ stat_ret.most_active_period = <<2, 3, 0, 0>>

(***************************************************************************)
(* The three extraction calls over one message set, the aggregator and the *)
(* merge of their results.  Each call is BaseAnalyzer.analyze, suspended   *)
(* at the awaited provider call.                                           *)
(***************************************************************************)
Pipelines == {"topics", "user_titles", "quotes"}

NoOutcome == [kind |-> "pending"]
GoodItem == [key |-> "a", complete |-> TRUE]
PipeData == {<<>>, <<GoodItem>>}
PipeUsages == {[prompt_tokens |-> 1, completion_tokens |-> 0, total_tokens |-> 1],
               [prompt_tokens |-> 1, completion_tokens |-> 1, total_tokens |-> 2]}

\* what the provider and the parsers give one call: no response, a raised
\* exception, or a response with its usage, what parse_json_response makes of
\* it and what extract_with_regex would return for it
Outcomes ==
    {[kind |-> "none"], [kind |-> "raise"]} \cup
    [kind : {"response"}, usage : PipeUsages, success : BOOLEAN,
     parsed_data : PipeData, regex_data : PipeData]

\* the message sets the calls run on
PipeInputs ==
    {<<>>, <<[time |-> 32400, sender |-> 1, message |-> <<Face>>]>>}

NoReturn == [records |-> <<>>, usage |-> TokenUsage0, set |-> FALSE]
NoMerged == [set |-> FALSE]
NoRendered == [set |-> FALSE]

PipeInit ==
    /\ ppc = [p \in Pipelines |-> "start"]
    /\ slot = [p \in Pipelines |-> NoOutcome]
    /\ delivered = [p \in Pipelines |-> NoOutcome]
    /\ p_ret = [p \in Pipelines |-> NoReturn]
    /\ p_messages \in PipeInputs
    /\ aggregated = FALSE
    /\ merged = NoMerged
    /\ rendered = NoRendered
    /\ overlap = FALSE

\* one place for the responses of all calls
ResponseSlotShared(p) == "topics"

\* line 112: response is a local of the call that awaits it
ResponseSlot(p) == p

\* lines 117-157: the call from the answer of the provider to its return
AnalyzeTail(o) ==
    IF o.kind = "raise" THEN ExceptResult
    ELSE IF o.kind # "response" THEN [records |-> <<>>, usage |-> TokenUsage0]
    ELSE LET usage == ExtractTokenUsage(o)
         IN  IF UseParsed(o.success, o.parsed_data)
             THEN [records |-> CreateDataObjects(o.parsed_data), usage |-> usage]
             ELSE IF o.regex_data # <<>>
             THEN [records |-> CreateDataObjects(o.regex_data), usage |-> usage]
             ELSE [records |-> <<>>, usage |-> usage]

\* lines 103-112: a call builds its prompt from the message set and awaits the provider
Begin ==
    /\ \E p \in Pipelines :
          /\ ppc[p] = "start"
          /\ ppc' = [ppc EXCEPT ![p] = "awaiting"]
    /\ UNCHANGED <<slot, delivered, p_ret, p_messages, aggregated, merged, rendered, overlap>>
    /\ UNCHANGED notMerge

\* the provider call of a suspended call completes
Deliver ==
    /\ \E p \in Pipelines, o \in Outcomes :
          /\ ppc[p] = "awaiting"
          /\ ppc' = [ppc EXCEPT ![p] = "ready"]
          /\ slot' = [slot EXCEPT ![ResponseSlot(p)] = o]
          /\ delivered' = [delivered EXCEPT ![p] = o]
    /\ UNCHANGED <<p_ret, p_messages, aggregated, merged, rendered, overlap>>
    /\ UNCHANGED notMerge

\* lines 112-157: a call resumes with its response and runs to its return
Resume ==
    /\ \E p \in Pipelines :
          /\ ppc[p] = "ready"
          /\ ppc' = [ppc EXCEPT ![p] = "returned"]
          /\ p_ret' = [p_ret EXCEPT ![p] = AnalyzeTail(slot[ResponseSlot(p)])]
          /\ overlap' = (overlap \/ \E q \in Pipelines \ {p} : ppc[q] \in {"awaiting", "ready"})
    /\ UNCHANGED <<slot, delivered, p_messages, aggregated, merged, rendered>>
    /\ UNCHANGED notMerge

\* calculate_statistics on the message set
Aggregate ==
    /\ ~aggregated
    /\ Calculate(p_messages)
    /\ aggregated' = TRUE
    /\ UNCHANGED probe
    /\ UNCHANGED <<ppc, slot, delivered, p_ret, p_messages, merged, rendered, overlap>>
    /\ UNCHANGED notPipelines

\* the sum, counter by counter, of the usage of the aggregator and of the three calls
SumUsage(stats, rets) ==
    [k \in UsageKeys |->
        stats.token_usage[k] + rets["topics"].usage[k] + rets["user_titles"].usage[k]
            + rets["quotes"].usage[k]]

\* the merge: the statistics with golden_quotes and token_usage overwritten,
\* then the topics and the user titles
Merge ==
    /\ aggregated
    /\ \A p \in Pipelines : ppc[p] = "returned"
    /\ ~merged.set
    /\ merged' = [set |-> TRUE,
                  statistics |-> [stat_ret EXCEPT !.golden_quotes = p_ret["quotes"].records,
                                                  !.token_usage = SumUsage(stat_ret, p_ret)],
                  topics |-> p_ret["topics"].records,
                  user_titles |-> p_ret["user_titles"].records]
    /\ UNCHANGED <<ppc, slot, delivered, p_ret, p_messages, aggregated, rendered, overlap>>
    /\ UNCHANGED notMerge

\* generators.py lines 223-225: x if x else 0
OrZero(x) == IF x # 0 THEN x ELSE 0

\* the token counters of _prepare_render_data
PrepareRenderData ==
    /\ merged.set
    /\ ~rendered.set
    /\ rendered' = [set |-> TRUE,
                    total_tokens |-> OrZero(merged.statistics.token_usage.total_tokens),
                    prompt_tokens |-> OrZero(merged.statistics.token_usage.prompt_tokens),
                    completion_tokens |->
                        OrZero(merged.statistics.token_usage.completion_tokens)]
    /\ UNCHANGED <<ppc, slot, delivered, p_ret, p_messages, aggregated, merged, overlap>>
    /\ UNCHANGED notMerge

PipelinesNext ==
    \/ Begin
    \/ Deliver
    \/ Resume
    \/ Aggregate
    \/ Merge
    \/ PrepareRenderData

\* the call ended without a response: the provider gave none, or a step raised
FailedCall(p) == delivered[p].kind \in {"none", "raise"}

\* C12: the token usage of the merged result, and of the render data made
\* from it, is counter by counter the sum of the usages the three calls
\* returned plus the usage of the aggregator, which is zero; a failed call
\* contributes 0.
C12_MergedUsageIsSum ==
    /\ aggregated => ZeroUsage(stat_ret.token_usage)
    /\ \A p \in Pipelines : (ppc[p] = "returned" /\ FailedCall(p)) => ZeroUsage(p_ret[p].usage)
    /\ merged.set =>
          \A k \in UsageKeys :
              merged.statistics.token_usage[k] =
                  p_ret["topics"].usage[k] + p_ret["user_titles"].usage[k]
                      + p_ret["quotes"].usage[k]
    /\ rendered.set =>
          \A k \in UsageKeys :
              rendered[k] = p_ret["topics"].usage[k] + p_ret["user_titles"].usage[k]
                                + p_ret["quotes"].usage[k]

\* two calls failed, the third returned a usage of 2 tokens, and the render data shows 2
C12_Witness ==
    /\ rendered.set
    /\ delivered["topics"].kind = "none"
    /\ delivered["user_titles"].kind = "raise"
    /\ delivered["quotes"].kind = "response"
    /\ p_ret["quotes"].usage.total_tokens = 2
    /\ rendered.total_tokens = 2
    /\ rendered.prompt_tokens = 1

\* each returned call returned what its own response gives, and the merged
\* result holds the records of the topics, user titles and quotes calls in
\* their places with the sum of their usages
C15_EachCallItsOwn ==
    /\ \A p \in Pipelines : ppc[p] = "returned" =>
          /\ p_ret[p].records = AnalyzeTail(delivered[p]).records
          /\ p_ret[p].usage = AnalyzeTail(delivered[p]).usage
    /\ merged.set =>
          /\ merged.topics = AnalyzeTail(delivered["topics"]).records
          /\ merged.user_titles = AnalyzeTail(delivered["user_titles"]).records
          /\ merged.statistics.golden_quotes = AnalyzeTail(delivered["quotes"]).records
          /\ \A k \in UsageKeys :
                merged.statistics.token_usage[k] =
                    AnalyzeTail(delivered["topics"]).usage[k]
                        + AnalyzeTail(delivered["user_titles"]).usage[k]
                        + AnalyzeTail(delivered["quotes"]).usage[k]

\* C15: for every interleaving of the three calls at the awaited provider
\* call, each call returns the records and the usage its own response gives
\* (as when the calls run one after the other), no step changes the message
\* set, and the merged result keeps the order topics, user titles, quotes and
\* the sum of the three usages.
C15_NoSharedState == []C15_EachCallItsOwn /\ [][p_messages' = p_messages]_vars

\* calls overlapped, returned three different results, and were merged
C15_Witness ==
    /\ merged.set
    /\ overlap
    /\ p_messages # <<>>
    /\ merged.topics # <<>>
    /\ merged.user_titles = <<>>
    /\ \A p \in Pipelines : delivered[p].kind = "response"
    /\ delivered["topics"].usage # delivered["quotes"].usage

(***************************************************************************)
(* ReportGenerator.generate_image_report: the data preparation and the two *)
(* render attempts, each an awaited call that returns or raises.           *)
(***************************************************************************)
Urls == {"url_a", "url_b"}
RenderOutcomes == Urls \cup {"raise"}
NoPayload == [bound |-> FALSE]

ReportInit ==
    /\ rpc = "start"
    /\ analysis_usage \in [UsageKeys -> 0..MaxTok]
    /\ render_payload = NoPayload
    /\ render_calls = <<>>
    /\ render_outcomes = <<>>
    /\ prepare_raised = FALSE
    /\ r_ret = None
    /\ r_raised = FALSE

\* lines 26-28: _prepare_render_data returns the payload or raises
ReportPrepare ==
    /\ rpc = "start"
    /\ \/ /\ render_payload' = [bound |-> TRUE,
                                total_tokens |-> OrZero(analysis_usage.total_tokens),
                                prompt_tokens |-> OrZero(analysis_usage.prompt_tokens),
                                completion_tokens |-> OrZero(analysis_usage.completion_tokens)]
          /\ rpc' = "render"
          /\ UNCHANGED prepare_raised
       \/ /\ rpc' = "fallback"
          /\ prepare_raised' = TRUE
          /\ UNCHANGED render_payload
    /\ UNCHANGED <<analysis_usage, render_calls, render_outcomes, r_ret, r_raised>>
    /\ UNCHANGED notReport

\* a first attempt that is made again when it raised
ReportRenderRetries ==
    /\ rpc = "render"
    /\ render_calls' = Append(render_calls, 95)
    /\ \E o \in RenderOutcomes :
          /\ render_outcomes' = Append(render_outcomes, o)
          /\ IF o = "raise"
             THEN rpc' = "render" /\ UNCHANGED r_ret
             ELSE rpc' = "returned" /\ r_ret' = o
    /\ UNCHANGED <<analysis_usage, render_payload, prepare_raised, r_raised>>
    /\ UNCHANGED notReport

\* lines 31-44: the first attempt, quality 95
ReportRender ==
    /\ rpc = "render"
    /\ render_calls' = Append(render_calls, 95)
    /\ \E o \in RenderOutcomes :
          /\ render_outcomes' = Append(render_outcomes, o)
          /\ IF o = "raise"
             THEN rpc' = "fallback" /\ UNCHANGED r_ret
             ELSE rpc' = "returned" /\ r_ret' = o
    /\ UNCHANGED <<analysis_usage, render_payload, prepare_raised, r_raised>>
    /\ UNCHANGED notReport

\* lines 46-66: the handler; with render_payload unbound the arguments of
\* the second call raise before html_render_func is called
ReportFallback ==
    /\ rpc = "fallback"
    /\ rpc' = "returned"
    /\ IF ~render_payload.bound
       THEN /\ r_ret' = None
            /\ UNCHANGED <<render_calls, render_outcomes>>
       ELSE /\ render_calls' = Append(render_calls, 70)
            /\ \E o \in RenderOutcomes :
                  /\ render_outcomes' = Append(render_outcomes, o)
                  /\ r_ret' = IF o = "raise" THEN None ELSE o
    /\ UNCHANGED <<analysis_usage, render_payload, prepare_raised, r_raised>>
    /\ UNCHANGED notReport

ReportNext ==
    \/ ReportPrepare
    \/ ReportRender
    \/ ReportFallback

\* the outcome of the first render call that did not raise, None if there is none
FirstSuccess(os) ==
    IF \A i \in 1..Len(os) : os[i] = "raise" THEN None
    ELSE os[CHOOSE i \in 1..Len(os) : os[i] # "raise" /\ \A j \in 1..(i - 1) : os[j] = "raise"]

\* C27: a call invokes the render function at most twice, first with quality
\* 95; the attempt with quality 70 is made only after the first attempt or
\* the data preparation raised; the result is the URL of the first attempt
\* that succeeded, None when none did, and no exception is let out.
C27_AtMostTwoRenders ==
    /\ Len(render_calls) <= 2
    /\ Len(render_calls) >= 1 => render_calls[1] = 95
    /\ Len(render_calls) = 2 =>
          /\ render_calls[2] = 70
          /\ render_outcomes[1] = "raise" \/ prepare_raised
    /\ rpc = "returned" => r_ret = FirstSuccess(render_outcomes)
    /\ r_raised = FALSE

\* the first attempt raised and the second gave the URL that was returned
C27_Witness ==
    /\ rpc = "returned"
    /\ render_calls = <<95, 70>>
    /\ render_outcomes = <<"raise", "url_b">>
    /\ r_ret = "url_b"

(***************************************************************************)
(* Specifications.                                                         *)
(***************************************************************************)
\* a fetch that is not running, for the specifications of the other parts
FetchQuiet ==
    /\ FetchInit
    /\ valid = FALSE
    /\ days = 0
    /\ bot_qq_id = None

\* no report to render
ReportQuiet == ReportInit /\ \A k \in UsageKeys : analysis_usage[k] = 0

\* no extraction call running on the empty message set
PipeQuiet == PipeInit /\ p_messages = <<>>

Init == FetchInit /\ ConfigInit /\ IdentityInit /\ AnalyzeInit /\ StatsInit /\ PipeQuiet /\ ServedInit /\ ReportQuiet
Next == FetchNext
Spec == Init /\ [][Next]_vars

\* the fetch with every started step carried on: the event loop runs a call
\* that can take a step, and every awaited request or sleep ends
NextLive ==
    \/ FetchStart
    \/ LoopExit
    \/ RequestLive
    \/ RoundInvalid
    \/ RoundRaise
    \/ RoundEmpty
    \/ RoundPage
SpecLive == Init /\ [][NextLive]_vars /\ WF_vars(NextLive)

NextDet ==
    \/ FetchStart
    \/ LoopExit
    \/ RequestDet
    \/ RoundInvalid
    \/ RoundRaise
    \/ RoundEmpty
    \/ RoundPage
SpecDet == Init /\ [][NextDet]_vars

InitReport ==
    FetchQuiet /\ ConfigInit /\ IdentityInit /\ AnalyzeInit /\ StatsInit /\ PipeQuiet
        /\ ServedInit /\ ReportInit
NextReport == ReportNext
SpecReport == InitReport /\ [][NextReport]_vars

InitRate == FetchInit /\ ConfigRate /\ IdentityInit /\ AnalyzeInit /\ StatsInit /\ PipeQuiet /\ ServedInit /\ ReportQuiet
NextRate ==
    \/ FetchStart
    \/ LoopExit
    \/ RequestRate
    \/ RoundInvalid
    \/ RoundRaise
    \/ RoundEmpty
    \/ RoundPage
SpecRate == InitRate /\ [][NextRate]_vars

InitIdentity == FetchQuiet /\ ConfigInit /\ IdentityInit /\ AnalyzeInit /\ StatsInit /\ PipeQuiet /\ ServedInit /\ ReportQuiet
NextIdentity == IdentityNext
SpecIdentity == InitIdentity /\ [][NextIdentity]_vars

InitAnalyze == FetchQuiet /\ ConfigInit /\ IdentityInit /\ AnalyzeInit /\ StatsInit /\ PipeQuiet /\ ServedInit /\ ReportQuiet
NextAnalyze == AnalyzeNext
SpecAnalyze == InitAnalyze /\ [][NextAnalyze]_vars

InitStats == FetchQuiet /\ ConfigInit /\ IdentityInit /\ AnalyzeInit /\ StatsInit /\ PipeQuiet /\ ServedInit /\ ReportQuiet
NextStats == StatsNext
SpecStats == InitStats /\ [][NextStats]_vars

InitPipelines == FetchQuiet /\ ConfigInit /\ IdentityInit /\ AnalyzeInit /\ StatsInit /\ PipeInit /\ ServedInit /\ ReportQuiet
NextPipelines == PipelinesNext
SpecPipelines == InitPipelines /\ [][NextPipelines]_vars
====
